---- MODULE Spec2Model ----
(***************************************************************************)
(* Ant Colony Optimization for the symmetric TSP (src/aco.py), driven the  *)
(* way src/main.py drives it: read_from_file builds the distance matrix,   *)
(* ACO(...) is constructed, set_random_start is called, find_best runs.    *)
(*                                                                         *)
(* Numbers are numpy float64 values.  A finite non-negative double is kept *)
(* exactly as m * 2^e with m odd (or m = 0); every quantity of the model   *)
(* is such a dyadic value with a mantissa far below 2^53, so the only      *)
(* roundings float64 can apply to it are the absorption of a tiny addend   *)
(* and the underflow of a tiny product, and both are modelled.             *)
(***************************************************************************)
EXTENDS Integers, Sequences, FiniteSets

VARIABLES
    cities,        \* self.cities      : the distance matrix, indexed by <<a, b>>
    n_cities,      \* self.n_cities
    n_ants,        \* self.n_ants
    n_iter,        \* self.n_iter
    decay,         \* self.decay
    alpha,         \* self.alpha
    beta,          \* self.beta
    pheromones,    \* self.pheromones  : indexed by <<a, b>>
    random_start,  \* self.random_start
    pc,            \* position of the running call
    exc,           \* the exception that ended the call, "" while none
    res,           \* find_best: global best-so-far
    best_path,     \* find_best: best path of the current iteration
    it,            \* find_best: iterations completed
    paths,         \* get_paths: paths generated so far in this iteration
    start,         \* generate_path: start
    previous,      \* generate_path: previous
    path,          \* generate_path: path
    visited,       \* generate_path: visited
    calls          \* number of updater calls made by the direct driver

vars == <<cities, n_cities, n_ants, n_iter, decay, alpha, beta, pheromones,
          random_start, pc, exc, res, best_path, it, paths, start, previous,
          path, visited, calls>>

aco_vars == <<cities, n_cities, n_ants, n_iter, decay, alpha, beta>>

gen_vars == <<start, previous, path, visited>>

(***************************************************************************)
(* Bounds of the model.                                                    *)
(***************************************************************************)
MaxAnts == 2

MaxIter == 2

MaxCalls == 3

(***************************************************************************)
(* float64                                                                 *)
(***************************************************************************)
\* exponent of the smallest subnormal double, 2^-1074
MinExp == 0 - 1074

\* significand bits of a double
Precision == 53

RECURSIVE BitLen(_)
BitLen(m) == IF m = 0 THEN 0 ELSE 1 + BitLen(m \div 2)

RECURSIVE Norm(_, _)
\* the dyadic value m * 2^e with an odd mantissa
Norm(m, e) ==
    IF m = 0 THEN [inf |-> FALSE, m |-> 0, e |-> 0]
    ELSE IF m % 2 = 0 THEN Norm(m \div 2, e + 1)
    ELSE [inf |-> FALSE, m |-> m, e |-> e]

Inf == [inf |-> TRUE, m |-> 0, e |-> 0]

Zero == Norm(0, 0)

One == Norm(1, 0)

FromInt(i) == Norm(i, 0)

\* position of the leading bit: a positive x lies in [2^(Top(x)-1), 2^Top(x))
Top(x) == x.e + BitLen(x.m)

FIsZero(x) == ~x.inf /\ x.m = 0

FLt(a, b) ==
    IF a.inf THEN FALSE
    ELSE IF b.inf THEN TRUE
    ELSE IF b.m = 0 THEN FALSE
    ELSE IF a.m = 0 THEN TRUE
    ELSE IF Top(a) # Top(b) THEN Top(a) < Top(b)
    ELSE LET e0 == IF a.e < b.e THEN a.e ELSE b.e
         IN  a.m * 2^(a.e - e0) < b.m * 2^(b.e - e0)

FLe(a, b) == a = b \/ FLt(a, b)

\* round m / 2^s to the nearest integer, ties to even
RoundShift(m, s) ==
    IF s > 30 THEN 0
    ELSE LET q == m \div 2^s
             r == m % 2^s
             half == 2^(s - 1)
         IN  IF r > half THEN q + 1
             ELSE IF r = half THEN q + (q % 2)
             ELSE q

\* the double nearest to m * 2^e: exact, or rounded onto the subnormal grid
Round(m, e) ==
    IF e >= MinExp THEN Norm(m, e)
    ELSE Norm(RoundShift(m, MinExp - e), MinExp)

\* a * b for finite a, b
FMul(a, b) == Round(a.m * b.m, a.e + b.e)

\* a + b for non-negative a, b
FAdd(a, b) ==
    IF a.inf \/ b.inf THEN Inf
    ELSE IF a.m = 0 THEN b
    ELSE IF b.m = 0 THEN a
    ELSE LET hi == IF Top(a) >= Top(b) THEN a ELSE b
             lo == IF Top(a) >= Top(b) THEN b ELSE a
             e0 == IF a.e < b.e THEN a.e ELSE b.e
         IN  IF Top(lo) < Top(hi) - Precision
                \/ (Top(lo) = Top(hi) - Precision /\ lo.m = 1)
             THEN hi     \* lo is at most half an ulp of hi: absorbed
             ELSE Norm(a.m * 2^(a.e - e0) + b.m * 2^(b.e - e0), e0)

\* 1 / x for x a power of two or infinite (the distances of the model)
FInv(x) ==
    CASE x.inf -> Zero
      [] ~x.inf /\ x.m = 1 -> Norm(1, 0 - x.e)

RECURSIVE FPow(_, _)
\* x ** k for an integer k >= 0
FPow(x, k) == IF k = 0 THEN One ELSE FMul(x, FPow(x, k - 1))

(***************************************************************************)
(* main.py: the distance matrix                                            *)
(***************************************************************************)
Indices(n) == 0 .. (n - 1)

\* position of entry (i, j), j <= i, in the LOWER_DIAG_ROW list m
K(i, j) == (i * (i + 1)) \div 2 + j + 1

\* number of entries of the EDGE_WEIGHT_SECTION of a file of dimension n
Entries(n) == (n * (n + 1)) \div 2

\* The EDGE_WEIGHT_SECTION of a four-city instance, row by row with a zero
\* diagonal: its three round trips weigh 6, 10 and 12.  Its first Entries(n)
\* entries are an instance of n cities.
BaseFile == <<0,  1, 0,  4, 2, 0,  2, 4, 1, 0>>

OffDiagonal(n) == { k \in 1 .. Entries(n) : BaseFile[k] # 0 }

\* an instance whose file gives 0, no direct edge, for the entries in missing
FileList(n, missing) ==
    [k \in 1 .. Entries(n) |-> IF k \in missing THEN 0 ELSE BaseFile[k]]

\* The instances: up to three cities with any set of missing edges, four
\* cities with at most two missing edges.
FileLists(n) ==
    { FileList(n, missing) : missing \in
        { s \in SUBSET OffDiagonal(n) : n <= 3 \/ Cardinality(s) <= 2 } }

\* read_from_file: non-positive entries become infinite, the upper triangle
\* mirrors the lower one
read_from_file(ncities, m) ==
    [mv \in Indices(ncities) \X Indices(ncities) |->
        LET i == IF mv[1] >= mv[2] THEN mv[1] ELSE mv[2]
            j == IF mv[1] >= mv[2] THEN mv[2] ELSE mv[1]
            distance == m[K(i, j)]
        IN  IF distance > 0 THEN FromInt(distance) ELSE Inf]

(***************************************************************************)
(* aco.py: Path                                                            *)
(***************************************************************************)
\* Path(path, weight); Path(None) has no edge list and the default weight
Path(p, w) == [defined |-> TRUE, path |-> p, weight |-> w]

PathNone == [defined |-> FALSE, path |-> <<>>, weight |-> Inf]

\* mutant: the comparison turned around
Path_lt_mut(self, other) == FLt(other.weight, self.weight)

Path_lt(self, other) == FLt(self.weight, other.weight)

RECURSIVE py_min_from(_, _, _)
py_min_from(ps, i, best) ==
    IF i > Len(ps) THEN best
    ELSE py_min_from(ps, i + 1, IF Path_lt(ps[i], best) THEN ps[i] ELSE best)

\* min(paths): the first path no other path is less than
py_min(ps) == py_min_from(ps, 2, ps[1])

(***************************************************************************)
(* aco.py: ACO                                                             *)
(***************************************************************************)
Cities == Indices(n_cities)

\* np.ones(self.cities.shape)
ones(shape) == [mv \in shape |-> One]

\* mutant: the visited cities are not taken out
availables_mut(vis) == Cities

availables(vis) == Cities \ vis

\* score = lambda y, x: (pheromones[x,y]**alpha) * (1/arcs[y])**beta
score(y, x, arcs) ==
    FMul(FPow(pheromones[<<x, y>>], alpha), FPow(FInv(arcs[y]), beta))

\* arcs = self.cities[start]
row(from) == [y \in Cities |-> cities[<<from, y>>]]

RECURSIVE sum_scores(_, _)
sum_scores(avail, from) ==
    IF avail = {} THEN Zero
    ELSE LET num == CHOOSE c \in avail : \A d \in avail : c >= d
         IN  FAdd(sum_scores(avail \ {num}, from), score(num, from, row(from)))

complete_score(from, vis) == sum_scores(availables(vis), from)

\* values[idx] = score / complete_score, kept as the quotient's two terms
values(from, vis) ==
    [num \in availables(vis) |->
        [num |-> score(num, from, row(from)), den |-> complete_score(from, vis)]]

IsNaN(w) == FIsZero(w.num) /\ FIsZero(w.den)

IsPositive(w) == ~FIsZero(w.num) /\ ~FIsZero(w.den)

Return(v) == [raised |-> FALSE, exc |-> "", value |-> v]

Raise(e) == [raised |-> TRUE, exc |-> e, value |-> 0]

\* mutant: a uniform draw that ignores the weights
random_choices_mut(population, weights) ==
    IF population = {} THEN {Raise("IndexError")}
    ELSE IF \E num \in population : IsNaN(weights[num])
         THEN {Raise("ValueError")}
    ELSE { Return(num) : num \in population }

\* random.choices(population, weights)[0]: every result the draw can give.
\* A NaN total is refused; an entry of weight zero is never drawn.
random_choices(population, weights) ==
    IF population = {} THEN {Raise("IndexError")}
    ELSE IF \E num \in population : IsNaN(weights[num])
         THEN {Raise("ValueError")}
    ELSE { Return(num) : num \in { c \in population : IsPositive(weights[c]) } }

\* choose_city(start, visited): every outcome of the call
choose_city(from, vis) ==
    IF from \notin Cities THEN {Raise("IndexError")}      \* self.cities[start]
    ELSE random_choices(availables(vis), values(from, vis))

MoveOK(move) == move[1] \in Cities /\ move[2] \in Cities

RECURSIVE get_path_weight(_)
\* distance = 0; for move in path: distance += self.cities[move]
get_path_weight(p) ==
    IF p = <<>> THEN Zero
    ELSE FAdd(get_path_weight(SubSeq(p, 1, Len(p) - 1)), cities[p[Len(p)]])

rev(move) == <<move[2], move[1]>>

RECURSIVE add_pheromones_to_mut(_, _)
\* mutant: only the direction the tour traverses is reinforced
add_pheromones_to_mut(ph, p) ==
    IF p = <<>> THEN ph
    ELSE add_pheromones_to_mut(
            [ph EXCEPT ![p[1]] = FAdd(@, FInv(cities[p[1]]))], Tail(p))

RECURSIVE add_pheromones_to(_, _)
add_pheromones_to(ph, p) ==
    IF p = <<>> THEN ph
    ELSE LET move == p[1]
             ph1 == [ph EXCEPT ![move] = FAdd(@, FInv(cities[move]))]
             ph2 == [ph1 EXCEPT ![rev(move)] = FAdd(@, FInv(cities[rev(move)]))]
         IN  add_pheromones_to(ph2, Tail(p))

\* add_pheromones(path): the pheromone matrix after the call
add_pheromones(p) == add_pheromones_to(pheromones, p.path)

\* mutant: the decay is never applied
evaporation_mut == pheromones

\* evaporation(): self.pheromones *= self.decay
evaporation == [mv \in DOMAIN pheromones |-> FMul(pheromones[mv], decay)]

(***************************************************************************)
(* Construction: main.py reads the matrix and builds the engine.           *)
(***************************************************************************)
\* alpha = 1 and beta = 1 in main.py
Alpha == 1

Beta == 1

\* random_start = False in main.py
RandomStart == FALSE

\* main.py's decay
Decay == Norm(3, 0 - 2)

\* decay factors of the search runs: main.py's 0.75, and 1
Decays == {Decay, One}

\* numbers of cities a file may declare
CityCounts == 0 .. 4

\* ACO.__init__ on the matrix read from a file of dimension n holding m
ACO_init(n, m, ants, iters, d) ==
    /\ cities = read_from_file(n, m)
    /\ n_cities = n
    /\ n_ants = ants
    /\ n_iter = iters
    /\ decay = d
    /\ alpha = Alpha
    /\ beta = Beta
    /\ pheromones = ones(DOMAIN read_from_file(n, m))
    /\ random_start = FALSE

\* the engine is constructed and nothing has run
Constructed(ns, ants_set, iters_set, decays) ==
    /\ \E n \in ns : \E m \in FileLists(n) :
       \E ants \in ants_set : \E iters \in iters_set : \E d \in decays :
          ACO_init(n, m, ants, iters, d)
    /\ pc = "constructed"
    /\ exc = ""
    /\ res = PathNone
    /\ best_path = PathNone
    /\ it = 0
    /\ paths = <<>>
    /\ start = 0
    /\ previous = 0
    /\ path = <<>>
    /\ visited = {}
    /\ calls = 0

Init == Constructed(CityCounts, 1 .. MaxAnts, 1 .. MaxIter, Decays)

(***************************************************************************)
(* The run of find_best, one action per step of the code.                  *)
(***************************************************************************)
\* set_random_start(random_start), before the run
set_random_start(b) ==
    /\ pc = "constructed"
    /\ random_start' = b
    /\ pc' = "ready"
    /\ UNCHANGED <<aco_vars, pheromones, exc, res, best_path, it, paths,
                   gen_vars, calls>>

\* main.py: aco.set_random_start(random_start)
main_set_random_start == set_random_start(RandomStart)

\* find_best is called: res = Path(None); best_path = None
find_best_call ==
    /\ pc = "ready"
    /\ res' = PathNone
    /\ best_path' = PathNone
    /\ it' = 0
    /\ pc' = "find_best"
    /\ UNCHANGED <<aco_vars, pheromones, random_start, exc, paths, gen_vars, calls>>

\* for _ in range(self.n_iter): paths = self.get_paths()   (the call)
get_paths_call ==
    /\ pc = "find_best"
    /\ it < n_iter
    /\ paths' = <<>>
    /\ pc' = "get_paths"
    /\ UNCHANGED <<aco_vars, pheromones, random_start, exc, res, best_path, it,
                   gen_vars, calls>>

\* random.randint(0, self.n_cities) if self.random_start else 0
start_cities == IF random_start THEN 0 .. n_cities ELSE {0}

\* get_paths, one more ant: the start is drawn and generate_path is entered
generate_path_call ==
    /\ pc = "get_paths"
    /\ Len(paths) < n_ants
    /\ \E s \in start_cities :
          /\ start' = s
          /\ previous' = s
          /\ path' = <<>>
          /\ visited' = {s}
    /\ pc' = "generate_path"
    /\ UNCHANGED <<aco_vars, pheromones, random_start, exc, res, best_path, it,
                   paths, calls>>

\* generate_path, one turn of the loop over range(self.n_cities - 1)
generate_path_step ==
    /\ pc = "generate_path"
    /\ Len(path) < n_cities - 1
    /\ \E out \in choose_city(previous, visited) :
          IF out.raised
          THEN /\ pc' = "raised"
               /\ exc' = out.exc
               /\ UNCHANGED gen_vars
          ELSE /\ path' = Append(path, <<previous, out.value>>)
               /\ visited' = visited \cup {out.value}
               /\ previous' = out.value
               /\ UNCHANGED <<pc, exc, start>>
    /\ UNCHANGED <<aco_vars, pheromones, random_start, res, best_path, it,
                   paths, calls>>

\* mutant: the weight is taken before the closing edge is appended
generate_path_mut(closed) ==
    Path(closed, get_path_weight(SubSeq(closed, 1, Len(closed) - 1)))

\* generate_path(start) after the loop: the closing edge and the weight
generate_path(closed) == Path(closed, get_path_weight(closed))

\* generate_path returns its Path, which get_paths appends to paths
generate_path_return ==
    /\ pc = "generate_path"
    /\ Len(path) >= n_cities - 1
    /\ LET closed == Append(path, <<previous, start>>)
       IN  IF \E i \in 1 .. Len(closed) : ~MoveOK(closed[i])
           THEN /\ pc' = "raised"
                /\ exc' = "IndexError"          \* self.cities[move]
                /\ UNCHANGED <<paths, path>>
           ELSE /\ path' = closed
                /\ paths' = Append(paths, generate_path(closed))
                /\ pc' = "get_paths"
                /\ UNCHANGED exc
    /\ UNCHANGED <<aco_vars, pheromones, random_start, res, best_path, it,
                   start, previous, visited, calls>>

\* find_best: best_path = min(paths); if best_path < res: res = best_path
select_best ==
    /\ pc = "get_paths"
    /\ Len(paths) >= n_ants
    /\ best_path' = py_min(paths)
    /\ res' = IF Path_lt(py_min(paths), res) THEN py_min(paths) ELSE res
    /\ pc' = "add_pheromones"
    /\ UNCHANGED <<aco_vars, pheromones, random_start, exc, it, paths, gen_vars,
                   calls>>

\* find_best: self.add_pheromones(best_path)
add_pheromones_step ==
    /\ pc = "add_pheromones"
    /\ pheromones' = add_pheromones(best_path)
    /\ pc' = "evaporation"
    /\ UNCHANGED <<aco_vars, random_start, exc, res, best_path, it, paths,
                   gen_vars, calls>>

\* find_best: self.evaporation(), the end of one iteration
evaporation_step ==
    /\ pc = "evaporation"
    /\ pheromones' = evaporation
    /\ it' = it + 1
    /\ pc' = "find_best"
    /\ UNCHANGED <<aco_vars, random_start, exc, res, best_path, paths, gen_vars,
                   calls>>

\* find_best: return res
find_best_return ==
    /\ pc = "find_best"
    /\ it >= n_iter
    /\ pc' = "done"
    /\ UNCHANGED <<aco_vars, pheromones, random_start, exc, res, best_path, it,
                   paths, gen_vars, calls>>

Next ==
    \/ main_set_random_start
    \/ find_best_call
    \/ get_paths_call
    \/ generate_path_call
    \/ generate_path_step
    \/ generate_path_return
    \/ select_best
    \/ add_pheromones_step
    \/ evaporation_step
    \/ find_best_return

\* main.py's run: construction, set_random_start(False), find_best
Spec == Init /\ [][Next]_vars

(***************************************************************************)
(* get_paths called on a fresh engine, with either setting of random_start *)
(***************************************************************************)
InitPaths == Constructed(CityCounts, 1 .. MaxAnts, {1}, {Decay})

get_paths_direct ==
    /\ pc = "ready"
    /\ paths' = <<>>
    /\ pc' = "get_paths"
    /\ UNCHANGED <<aco_vars, pheromones, random_start, exc, res, best_path, it,
                   gen_vars, calls>>

\* get_paths: return paths
get_paths_return ==
    /\ pc = "get_paths"
    /\ Len(paths) >= n_ants
    /\ pc' = "done"
    /\ UNCHANGED <<aco_vars, pheromones, random_start, exc, res, best_path, it,
                   paths, gen_vars, calls>>

NextPaths ==
    \/ \E b \in BOOLEAN : set_random_start(b)
    \/ get_paths_direct
    \/ generate_path_call
    \/ generate_path_step
    \/ generate_path_return
    \/ get_paths_return

SpecPaths == InitPaths /\ [][NextPaths]_vars

(***************************************************************************)
(* The pheromone updater called directly: any sequence of add_pheromones   *)
(* and evaporation calls on a fresh engine.                                *)
(***************************************************************************)
\* decay factors in (0, 1]: 1, main.py's 0.75, and 2^-600
UpdaterDecays == {One, Decay, Norm(1, 0 - 600)}

InitUpdater == Constructed(2 .. 4, {1}, {1}, UpdaterDecays)

RECURSIVE tours_from(_, _, _, _)
tours_from(s, prev, vis, acc) ==
    IF vis = Cities THEN {Append(acc, <<prev, s>>)}
    ELSE UNION { tours_from(s, y, vis \cup {y}, Append(acc, <<prev, y>>)) :
                   y \in Cities \ vis }

\* the edge lists of the round trips over all cities that leave city 0
TourPaths == tours_from(0, 0, {0}, <<>>)

\* aco.add_pheromones(p) for a round trip p; best_path holds the argument
add_pheromones_direct ==
    /\ pc \in {"constructed", "added", "evaporated"}
    /\ calls < MaxCalls
    /\ \E p \in TourPaths :
          /\ best_path' = Path(p, get_path_weight(p))
          /\ pheromones' = add_pheromones(Path(p, get_path_weight(p)))
    /\ calls' = calls + 1
    /\ pc' = "added"
    /\ UNCHANGED <<aco_vars, random_start, exc, res, it, paths, gen_vars>>

\* aco.evaporation()
evaporation_direct ==
    /\ pc \in {"constructed", "added", "evaporated"}
    /\ calls < MaxCalls
    /\ pheromones' = evaporation
    /\ calls' = calls + 1
    /\ pc' = "evaporated"
    /\ UNCHANGED <<aco_vars, random_start, exc, res, best_path, it, paths,
                   gen_vars>>

NextUpdater ==
    \/ add_pheromones_direct
    \/ evaporation_direct

SpecUpdater == InitUpdater /\ [][NextUpdater]_vars

(***************************************************************************)
(* Properties                                                              *)
(***************************************************************************)
Last(ps) == ps[Len(ps)]

\* the integer a finite integral double stands for
ToInt(x) == x.m * 2^(x.e)

\* p leaves s, chains edge to edge, returns to s and leaves every city once
IsRoundTrip(p, s) ==
    /\ Len(p) = n_cities
    /\ p[1][1] = s
    /\ \A i \in 1 .. (Len(p) - 1) : p[i][2] = p[i + 1][1]
    /\ p[Len(p)][2] = s
    /\ \A c \in Cities : Cardinality({ i \in 1 .. Len(p) : p[i][1] = c }) = 1
    /\ \A i \in 1 .. Len(p) : p[i][1] \in Cities

\* a Path has just been returned by generate_path(start)
Returned == pc = "get_paths" /\ paths # <<>>

\* C1: with at least two cities and a start in [0, n_cities), a Path
\* returned by generate_path is one cycle through every city: n_cities
\* edges, leaving start, chained, back to start, every city left once.
C1_RoundTrip ==
    (Returned /\ n_cities >= 2 /\ start \in Cities)
        => /\ IsRoundTrip(Last(paths).path, start)
           /\ \A i \in 1 .. Len(paths) :
                 IsRoundTrip(paths[i].path, paths[i].path[1][1])

C1_Witness ==
    /\ Returned
    /\ n_cities = 4
    /\ random_start
    /\ start = 2
    /\ Len(paths) = 2
    /\ paths[1].path[1][1] # 2

RECURSIVE IntSum(_, _)
IntSum(p, i) == IF i > Len(p) THEN 0 ELSE ToInt(cities[p[i]]) + IntSum(p, i + 1)

\* the weight of an edge list, from the matrix: infinite when an edge is
\* missing, else the integer sum of its distances
WeightOfEdges(p) ==
    IF \E i \in 1 .. Len(p) : cities[p[i]].inf THEN Inf
    ELSE FromInt(IntSum(p, 1))

\* C3: the weight stored in a Path returned by generate_path is the sum of
\* the distances of the edges of its path list, the closing edge included.
C3_StoredWeight ==
    Returned => \A i \in 1 .. Len(paths) :
                   paths[i].weight = WeightOfEdges(paths[i].path)

C3_Witness ==
    /\ Returned
    /\ n_cities = 4
    /\ Last(paths).weight = FromInt(10)
    /\ Len(Last(paths).path) = 4

\* the cities not yet visited when edge i of the path under construction
\* was chosen
UnvisitedAt(p, i) == Cities \ { p[j][1] : j \in 1 .. i }

\* C6: an edge chosen by choose_city during tour construction has a finite
\* distance unless every city unvisited at that step was at an infinite
\* distance from the current city.
C6_FiniteChoice ==
    pc = "generate_path" =>
        \A i \in 1 .. Len(path) :
            cities[path[i]].inf =>
                \A y \in UnvisitedAt(path, i) : cities[<<path[i][1], y>>].inf

C6_Witness ==
    /\ pc = "generate_path"
    /\ it >= 1
    /\ Len(path) >= 1
    /\ \E y \in UnvisitedAt(path, 1) : cities[<<path[1][1], y>>].inf
    /\ ~cities[path[1]].inf

\* C2: the global best-so-far never gets heavier, and from the moment an
\* iteration's best tour is selected it weighs no more than that tour; so
\* the Path find_best returns weighs no more than any iteration's best.
C2_BestNeverWorse ==
    /\ [](pc \in {"add_pheromones", "evaporation", "done"}
            => FLe(res.weight, best_path.weight))
    /\ [][FLe(res'.weight, res.weight)]_vars

C2_Witness ==
    /\ pc = "done"
    /\ it = 2
    /\ res.defined
    /\ FLt(res.weight, best_path.weight)

\* C7: when every unvisited city has score zero, choose_city still returns
\* an unvisited city and the run goes on: no exception reaches the caller.
C7_DegenerateChoiceHandled ==
    (/\ pc \in {"generate_path", "raised"}
     /\ previous \in Cities
     /\ Len(path) < n_cities - 1
     /\ FIsZero(complete_score(previous, visited)))
        => pc # "raised"

\* C8: with fewer than two cities the engine fails before any iteration
\* begins: get_paths never runs, no Path is produced, find_best returns none.
C8_RejectsTooFewCities ==
    n_cities < 2 =>
        /\ pc \notin {"get_paths", "generate_path", "add_pheromones",
                      "evaporation", "done"}
        /\ paths = <<>>
        /\ exc \in {"", "InvalidInput"}

\* C9: the start handed to generate_path is 0 when random_start is off,
\* and otherwise an index in [0, n_cities).
C9_StartInRange ==
    pc = "generate_path" =>
        IF random_start THEN start \in 0 .. (n_cities - 1) ELSE start = 0

\* C10: with n_iter >= 1 and n_ants >= 1 the Path find_best returns is a
\* tour some ant generated, never the initial placeholder.
C10_ReturnsGeneratedTour ==
    (pc = "done" /\ n_cities >= 2) => res.defined

\* the matrix entries [a, b] and [b, a] of the edges (a, b) of p
EdgeEntries(p) ==
    { p[i] : i \in 1 .. Len(p) } \cup { rev(p[i]) : i \in 1 .. Len(p) }

\* how many edges of p join the two cities of entry mv, in either direction
EdgeCount(p, mv) ==
    Cardinality({ i \in 1 .. Len(p) : p[i] = mv \/ rev(p[i]) = mv })

RECURSIVE AddTimes(_, _, _)
\* x, k times increased by y
AddTimes(x, y, k) == IF k = 0 THEN x ELSE FAdd(AddTimes(x, y, k - 1), y)

\* the step is a call add_pheromones(best_path')
IsAddCall == pc' = "added" /\ calls' = calls + 1

\* the step is a call evaporation()
IsEvaporationCall == pc' = "evaporated" /\ calls' = calls + 1

\* what add_pheromones leaves alone: the entries of city pairs that are not
\* edges of the path, the distance matrix, the configuration; and no entry
\* is lowered
AddFrame ==
    /\ \A mv \in DOMAIN pheromones :
          /\ mv \notin EdgeEntries(best_path'.path)
                => pheromones'[mv] = pheromones[mv]
          /\ FLe(pheromones[mv], pheromones'[mv])
    /\ DOMAIN pheromones' = DOMAIN pheromones
    /\ UNCHANGED <<aco_vars, random_start>>

\* C4, as claimed: add_pheromones(path) changes only the entries [a, b] and
\* [b, a] of the edges of path, never lowers them, increases each by
\* 1/distance of that entry, and leaves every other entry, the distance
\* matrix and the configuration unchanged.
C4_AddOnce ==
    [][IsAddCall =>
         /\ AddFrame
         /\ \A mv \in EdgeEntries(best_path'.path) :
               pheromones'[mv] = FAdd(pheromones[mv], FInv(cities[mv]))]_vars

\* C4, amended: as claimed, except that each entry of an edge is increased
\* by 1/distance of that entry once for every edge of the path that joins
\* its two cities, in either direction: twice with two cities, where both
\* edges of the round trip join the same pair.
C4_AddPerEdge ==
    [][IsAddCall =>
         /\ AddFrame
         /\ \A mv \in EdgeEntries(best_path'.path) :
               pheromones'[mv] =
                  AddTimes(pheromones[mv], FInv(cities[mv]),
                           EdgeCount(best_path'.path, mv))]_vars

\* a call on four cities raised the entries of an existing edge of the path
\* and left an entry outside the path as it was
C4_Witness ==
    /\ pc = "added"
    /\ n_cities = 4
    /\ \E mv \in EdgeEntries(best_path.path) : FLt(One, pheromones[mv])
    /\ \E mv \in DOMAIN pheromones :
          /\ mv[1] # mv[2]
          /\ mv \notin EdgeEntries(best_path.path)
          /\ pheromones[mv] = One

NonNegative == \A mv \in DOMAIN pheromones : ~FLt(pheromones[mv], Zero)

\* exponent of the smallest normal double, 2^-1022
MinNormalExp == 0 - 1022

\* the exact product x * d is at least the smallest normal double
ProductIsNormal(x, d) ==
    /\ x.m # 0
    /\ Top(Norm(x.m * d.m, x.e + d.e)) > MinNormalExp

\* C5, as claimed: with decay in (0, 1] every entry stays >= 0 through any
\* calls of add_pheromones and evaporation from the all-ones matrix, and
\* each evaporation() strictly decreases every entry (leaves it equal when
\* decay = 1).
C5_StrictDecrease ==
    /\ []NonNegative
    /\ [][IsEvaporationCall =>
            \A mv \in DOMAIN pheromones :
               IF decay = One THEN pheromones'[mv] = pheromones[mv]
               ELSE FLt(pheromones'[mv], pheromones[mv])]_vars

\* C5, amended: every entry stays >= 0; each evaporation() leaves every
\* entry equal when decay = 1, never increases an entry, and strictly
\* decreases every entry whose product with decay is at least the smallest
\* normal double; an entry that has underflowed to 0 stays 0.
C5_DecreaseUntilUnderflow ==
    /\ []NonNegative
    /\ [][IsEvaporationCall =>
            \A mv \in DOMAIN pheromones :
               /\ FLe(pheromones'[mv], pheromones[mv])
               /\ decay = One => pheromones'[mv] = pheromones[mv]
               /\ (decay # One /\ ProductIsNormal(pheromones[mv], decay))
                     => FLt(pheromones'[mv], pheromones[mv])
               /\ pheromones[mv] = Zero => pheromones'[mv] = Zero]_vars

\* an evaporation with decay < 1 lowered an entry that had been reinforced
\* and left at 0 an entry that had underflowed
C5_Witness ==
    /\ pc = "evaporated"
    /\ decay # One
    /\ \E mv \in DOMAIN pheromones : pheromones[mv] = Zero
    /\ \E mv \in DOMAIN pheromones :
          FLt(Zero, pheromones[mv]) /\ FLt(pheromones[mv], One)

====
